---------------------------- MODULE Spec2Model ----------------------------
(***************************************************************************)
(* AI Tic-Tac-Toe: the win/draw evaluator, the heuristic ("Medium") move   *)
(* selector, the remote-assisted ("Hard"/"Trained") selectors with their   *)
(* validation and fallback, and the React game orchestrator (App) with its *)
(* asynchronous aiMove calls.                                              *)
(*                                                                         *)
(* Sources: src/unnamed/part_000 (App.tsx), src/unnamed/part_001           *)
(* (data/trainingData.ts), src/unnamed/part_002 (services/geminiService.ts)*)
(* and src/types.ts.  WINNING_COMBINATIONS (constants.ts) is modelled from *)
(* the specification, sections 3 and 4.1.                                  *)
(***************************************************************************)
EXTENDS Integers, Sequences, FiniteSets, TLC

(***************************************************************************)
(* Bounds of the model.                                                    *)
(***************************************************************************)
\* Math.random() is drawn from {0/RandSteps, ..., (RandSteps-1)/RandSteps}.
RandSteps == 4
\* A legal human click goes to one of the MaxClickChoices lowest empty cells.
MaxClickChoices == 1
\* restartGame is taken while gamesPlayed < MaxGames.
MaxGames == 1
\* A click that would start an aiMove call is taken while fewer than
\* MaxInFlight calls are suspended.
MaxInFlight == 2
\* Such a click is taken while fewer than MaxOverlap calls started in the
\* current game (since the last reset) are suspended.
MaxOverlap == 1
\* A valid move of the service in a game goes to one of the MaxServiceChoices
\* lowest empty cells.
MaxServiceChoices == 2
\* restartGame is taken with an aiMove call suspended only while the move
\* history has at most MaxStaleHistory entries.
MaxStaleHistory == 3
\* The remote-assisted selectors are applied to the boards on which X, who
\* moves first, is ahead of O by 1 to MaxLead marks (on the AI's turn X is
\* ahead by one).
MaxLead == 1
\* The retriever is applied to every move history of at most MaxHistoryLen
\* moves,
MaxHistoryLen == 2
\* and to every prefix of a corpus entry followed by at most MaxExtraMoves
\* further moves.
MaxExtraMoves == 1

(***************************************************************************)
(* Values.                                                                 *)
(***************************************************************************)
Cells == 0..8
\* JavaScript null in a board cell.
null == "_"
Player == {"X", "O"}
Difficulty == {"Easy", "Medium", "Hard", "Trained"}
\* JavaScript undefined where a number is expected (availableCells[0] of an
\* empty array, a null result of findWinningMove).
undefined == -1
BoardState == [Cells -> Player \cup {null}]
EmptyBoard == [i \in Cells |-> null]
\* checkWinner's null, and the initial winnerInfo.
NoWinner == [winner |-> null, line |-> <<>>]

Min(S) == CHOOSE x \in S : \A y \in S : x <= y

\* The eight winning lines in the order the specification fixes: rows, then
\* columns, then diagonals.
WINNING_COMBINATIONS ==
    << <<0, 1, 2>>, <<3, 4, 5>>, <<6, 7, 8>>,
       <<0, 3, 6>>, <<1, 4, 7>>, <<2, 5, 8>>,
       <<0, 4, 8>>, <<2, 4, 6>> >>

\* board.map((cell, index) => cell === null ? index : null).filter(...):
\* the empty cells in increasing order.
RECURSIVE FilterFrom(_, _, _)
FilterFrom(board, cells, k) ==
    IF k > Len(cells) THEN <<>>
    ELSE IF board[cells[k]] = null
         THEN <<cells[k]>> \o FilterFrom(board, cells, k + 1)
         ELSE FilterFrom(board, cells, k + 1)

availableCells(board) == FilterFrom(board, <<0, 1, 2, 3, 4, 5, 6, 7, 8>>, 1)

\* Mutant of RandomIndex: no random draw, the first candidate is taken.
RandomIndex_AlwaysFirst(rnd, n) == 0

\* Math.floor(Math.random() * n) for Math.random() = rnd / RandSteps.
RandomIndex(rnd, n) == (rnd * n) \div RandSteps

(***************************************************************************)
(* Win detection of the selector (geminiService.ts).                       *)
(***************************************************************************)
\* Mutant of LineWon: the truthiness test of board[a] is dropped, so three
\* empty cells in a line count as won.
LineWon_IgnoresEmpty(board, combination) ==
    /\ board[combination[1]] = board[combination[2]]
    /\ board[combination[1]] = board[combination[3]]

\* The condition of the loop body: board[a] && board[a] === board[b] && ...
LineWon(board, combination) ==
    /\ board[combination[1]] # null
    /\ board[combination[1]] = board[combination[2]]
    /\ board[combination[1]] = board[combination[3]]

checkWinner(board) ==
    LET hits == {k \in 1..Len(WINNING_COMBINATIONS) :
                    LineWon(board, WINNING_COMBINATIONS[k])}
        combination == WINNING_COMBINATIONS[Min(hits)]
    IN  IF hits = {} THEN NoWinner
        ELSE [winner |-> board[combination[1]], line |-> combination]

\* Mutant of findWinningMove: the scan keeps the last winning cell, not the
\* first.
findWinningMove_LastMatch(board, player) ==
    LET wins == {i \in Cells :
                    /\ board[i] = null
                    /\ checkWinner([board EXCEPT ![i] = player]).winner = player}
    IN  IF wins = {} THEN undefined ELSE CHOOSE x \in wins : \A y \in wins : y <= x

findWinningMove(board, player) ==
    LET wins == {i \in Cells :
                    /\ board[i] = null
                    /\ checkWinner([board EXCEPT ![i] = player]).winner = player}
    IN  IF wins = {} THEN undefined ELSE Min(wins)

\* Mutant of getMediumAIMove: the centre is played without testing that it
\* is empty.
getMediumAIMove_CentreUnchecked(board, rnd) ==
    LET winningMove  == findWinningMove(board, "O")
        blockingMove == findWinningMove(board, "X")
    IN  IF winningMove # undefined THEN winningMove
        ELSE IF blockingMove # undefined THEN blockingMove
        ELSE 4

\* Mutant of getMediumAIMove: the block is tried before the win.
getMediumAIMove_BlocksFirst(board, rnd) ==
    LET winningMove      == findWinningMove(board, "O")
        blockingMove     == findWinningMove(board, "X")
        availableCorners == FilterFrom(board, <<0, 2, 6, 8>>, 1)
        availableSides   == FilterFrom(board, <<1, 3, 5, 7>>, 1)
        rest             == availableCells(board)
    IN  IF blockingMove # undefined THEN blockingMove
        ELSE IF winningMove # undefined THEN winningMove
        ELSE IF board[4] = null THEN 4
        ELSE IF Len(availableCorners) > 0
             THEN availableCorners[RandomIndex(rnd, Len(availableCorners)) + 1]
        ELSE IF Len(availableSides) > 0
             THEN availableSides[RandomIndex(rnd, Len(availableSides)) + 1]
        ELSE IF Len(rest) > 0 THEN rest[1] ELSE undefined

\* getMediumAIMove with the two draws of Math.random() it may make.
getMediumAIMove(board, rnd) ==
    LET winningMove      == findWinningMove(board, "O")
        blockingMove     == findWinningMove(board, "X")
        availableCorners == FilterFrom(board, <<0, 2, 6, 8>>, 1)
        availableSides   == FilterFrom(board, <<1, 3, 5, 7>>, 1)
        rest             == availableCells(board)
    IN  IF winningMove # undefined THEN winningMove
        ELSE IF blockingMove # undefined THEN blockingMove
        ELSE IF board[4] = null THEN 4
        ELSE IF Len(availableCorners) > 0
             THEN availableCorners[RandomIndex(rnd, Len(availableCorners)) + 1]
        ELSE IF Len(availableSides) > 0
             THEN availableSides[RandomIndex(rnd, Len(availableSides)) + 1]
        ELSE IF Len(rest) > 0 THEN rest[1] ELSE undefined


(***************************************************************************)
(* The external reasoning service, as seen by the selectors.               *)
(***************************************************************************)
\* A number the service may put in the "move" field, doubled so that halves
\* (non-integers) are representable: -1, 0, 1, ..., 8, 9 and 4.5.
ServiceNumbers2 == {-2, 9, 18} \cup {2 * i : i \in Cells}

\* What one request can end in.
\*   no_credentials   API_KEY is unset: getAIInstance throws
\*   transport_error  generateContent rejects
\*   malformed_json   JSON.parse(response.text) throws
\*   json_null        JSON.parse gives null: reading .move throws
\*   move_absent      the object has no "move" field
\*   move_not_number  "move" is a string, a boolean, an object
\*   number           "move" is the number move2 / 2
ServiceResponses ==
    [kind : {"no_credentials", "transport_error", "malformed_json", "json_null",
             "move_absent", "move_not_number"}, move2 : {0}]
    \cup [kind : {"number"}, move2 : ServiceNumbers2]

NoCredentials == [kind |-> "no_credentials", move2 |-> 0]

\* The responses that make the try block throw.
Throws(resp) ==
    resp.kind \in {"no_credentials", "transport_error", "malformed_json", "json_null"}

\* Mutant of CellIsNull: the cell is not read, any index of the board passes.
CellIsNull_InRangeOnly(board, move2) ==
    /\ move2 % 2 = 0
    /\ (move2 \div 2) \in Cells

\* board[move] === null for a JavaScript number move = move2 / 2: a property
\* lookup with a non-integer or out-of-range key yields undefined.
CellIsNull(board, move2) ==
    /\ move2 % 2 = 0
    /\ (move2 \div 2) \in Cells
    /\ board[move2 \div 2] = null

\* typeof move === 'number' && move >= 0 && move <= 8 && board[move] === null
ValidMove(board, resp) ==
    /\ resp.kind = "number"
    /\ resp.move2 >= 0
    /\ resp.move2 <= 16
    /\ CellIsNull(board, resp.move2)

getHardAIMove(board, moveHistory, resp, rnd) ==
    IF Throws(resp) THEN getMediumAIMove(board, rnd)
    ELSE IF ValidMove(board, resp) THEN resp.move2 \div 2
    ELSE getMediumAIMove(board, rnd)

(***************************************************************************)
(* The training corpus and the retrieval of examples (Trained tier).       *)
(***************************************************************************)
winningGameSequences ==
    << [winner |-> "O", moves |-> <<0, 4, 1, 2, 3, 6>>],
       [winner |-> "O", moves |-> <<8, 4, 2, 6, 5>>],
       [winner |-> "O", moves |-> <<0, 1, 4, 2, 8>>],
       [winner |-> "O", moves |-> <<2, 4, 5, 3, 8>>],
       [winner |-> "O", moves |-> <<6, 4, 7, 1, 8>>],
       [winner |-> "O", moves |-> <<0, 3, 4, 5, 8>>],
       [winner |-> "O", moves |-> <<2, 5, 4, 3, 6>>],
       [winner |-> "X", moves |-> <<4, 0, 1, 2, 7>>],
       [winner |-> "X", moves |-> <<4, 2, 7, 6, 1>>],
       [winner |-> "X", moves |-> <<0, 1, 2, 5, 4, 3, 8>>],
       [winner |-> "X", moves |-> <<0, 4, 3, 5, 6>>],
       [winner |-> "X", moves |-> <<2, 4, 1, 7, 0>>],
       [winner |-> "X", moves |-> <<8, 4, 0, 2, 1, 6>>],
       [winner |-> "X", moves |-> <<4, 8, 6, 7, 2>>],
       [winner |-> "O", moves |-> <<4, 0, 6, 3, 2>>],
       [winner |-> "O", moves |-> <<4, 8, 2, 5, 6>>],
       [winner |-> "O", moves |-> <<1, 4, 0, 8, 2>>],
       [winner |-> "O", moves |-> <<3, 4, 0, 8, 6>>],
       [winner |-> "O", moves |-> <<0, 2, 1, 3, 4, 5, 6, 7, 8>>],
       [winner |-> "O", moves |-> <<8, 7, 6, 5, 4, 3, 2, 1, 0>>] >>

\* Mutant of HistoryMatches: only the positions both sequences have are
\* compared, so an entry shorter than the history can match.
HistoryMatches_CommonPrefix(moveHistory, seq) ==
    \A i \in 1..Len(moveHistory) :
        i <= Len(seq.moves) => moveHistory[i] = seq.moves[i]

\* moveHistory.every((move, index) => move === seq.moves[index]); an index
\* past the end of seq.moves reads undefined, which equals no move.
HistoryMatches(moveHistory, seq) ==
    \A i \in 1..Len(moveHistory) :
        /\ i <= Len(seq.moves)
        /\ moveHistory[i] = seq.moves[i]

RECURSIVE FilterMatches(_, _)
FilterMatches(moveHistory, k) ==
    IF k > Len(winningGameSequences) THEN <<>>
    ELSE IF HistoryMatches(moveHistory, winningGameSequences[k])
         THEN <<winningGameSequences[k]>> \o FilterMatches(moveHistory, k + 1)
         ELSE FilterMatches(moveHistory, k + 1)

\* .filter(...).slice(0, 3)
relevantExamples(moveHistory) ==
    LET matches == FilterMatches(moveHistory, 1)
    IN  SubSeq(matches, 1, IF Len(matches) < 3 THEN Len(matches) ELSE 3)

\* Mutant of getTrainedAIMove: no catch block, a throw leaves no move.
getTrainedAIMove_NoCatch(board, moveHistory, resp, rnd) ==
    IF Throws(resp) THEN undefined
    ELSE IF ValidMove(board, resp) THEN resp.move2 \div 2
    ELSE getMediumAIMove(board, rnd)

getTrainedAIMove(board, moveHistory, resp, rnd) ==
    IF Throws(resp) THEN getMediumAIMove(board, rnd)
    ELSE IF ValidMove(board, resp) THEN resp.move2 \div 2
    ELSE getMediumAIMove(board, rnd)

(***************************************************************************)
(* State.                                                                  *)
(***************************************************************************)
VARIABLES
    \* React state of App (part_000 lines 45-56)
    board, isPlayerTurn, winnerInfo, isDraw, difficulty, scores, gamesPlayed,
    aiCommentary, isAiThinking, moveHistory,
    \* whether process.env.API_KEY is set (part_002 line 7)
    apiKey,
    \* the aiMove calls that have started and are suspended at an await, in the
    \* order they started
    calls,
    \* a selector under test: its input board and move history, the function
    \* applied, the service response and the result
    fboard, fhistory, fop, fresp, fout

appVars == <<board, isPlayerTurn, winnerInfo, isDraw, difficulty, scores,
             gamesPlayed, aiCommentary, isAiThinking, moveHistory, apiKey, calls>>
funVars == <<fboard, fhistory, fop, fresp, fout>>
vars == <<appVars, funVars>>

(***************************************************************************)
(* The orchestrator (App.tsx).  A handler is an operator from the state of *)
(* the render it closes over to the state after its batched updates.       *)
(***************************************************************************)
State ==
    [board |-> board, isPlayerTurn |-> isPlayerTurn, winnerInfo |-> winnerInfo,
     isDraw |-> isDraw, difficulty |-> difficulty, scores |-> scores,
     gamesPlayed |-> gamesPlayed, aiCommentary |-> aiCommentary,
     isAiThinking |-> isAiThinking, moveHistory |-> moveHistory]

Commit(st) ==
    /\ board' = st.board
    /\ isPlayerTurn' = st.isPlayerTurn
    /\ winnerInfo' = st.winnerInfo
    /\ isDraw' = st.isDraw
    /\ difficulty' = st.difficulty
    /\ scores' = st.scores
    /\ gamesPlayed' = st.gamesPlayed
    /\ aiCommentary' = st.aiCommentary
    /\ isAiThinking' = st.isAiThinking
    /\ moveHistory' = st.moveHistory

\* The first winning line of currentBoard in the loop's order, or NoWinner.
FirstLine(currentBoard) ==
    LET hits == {k \in 1..Len(WINNING_COMBINATIONS) :
                    LineWon(currentBoard, WINNING_COMBINATIONS[k])}
        combination == WINNING_COMBINATIONS[Min(hits)]
    IN  IF hits = {} THEN NoWinner
        ELSE [winner |-> currentBoard[combination[1]], line |-> combination]

\* checkGameStatus(currentBoard) of a render whose scores are storedScores:
\* setScores is useLocalStorage's setValue, which applies the updater to the
\* storedValue of the render that created it (lines 18-22).
checkGameStatus(st, currentBoard, storedScores) ==
    LET w == FirstLine(currentBoard)
    IN  IF w # NoWinner
        THEN [st EXCEPT
                !.winnerInfo = w,
                !.scores = IF w.winner = "X"
                           THEN [storedScores EXCEPT !.player = @ + 1]
                           ELSE [storedScores EXCEPT !.ai = @ + 1],
                !.aiCommentary = IF w.winner = "X" THEN "You got lucky..."
                                 ELSE "Victory is mine!"]
        ELSE IF \A i \in Cells : currentBoard[i] # null
        THEN [st EXCEPT
                !.isDraw = TRUE,
                !.scores = [storedScores EXCEPT !.draws = @ + 1],
                !.aiCommentary = "A worthy opponent. It's a draw!"]
        ELSE st

\* Mutant of restartGame: the AI-thinking flag is left as it is.
restartGame_KeepsThinking(st) ==
    [st EXCEPT
        !.board = EmptyBoard,
        !.isPlayerTurn = TRUE,
        !.winnerInfo = NoWinner,
        !.isDraw = FALSE,
        !.gamesPlayed = @ + 1,
        !.aiCommentary = "",
        !.moveHistory = <<>>]

restartGame(st) ==
    [st EXCEPT
        !.board = EmptyBoard,
        !.isPlayerTurn = TRUE,
        !.winnerInfo = NoWinner,
        !.isDraw = FALSE,
        !.gamesPlayed = @ + 1,
        !.aiCommentary = "",
        !.isAiThinking = FALSE,
        !.moveHistory = <<>>]

\* Mutant of ClickIgnored: the turn is not looked at.
ClickIgnored_AnyTurn(st, index) ==
    \/ st.board[index] # null
    \/ st.winnerInfo # NoWinner
    \/ st.isDraw

\* The early return of handleCellClick.
ClickIgnored(st, index) ==
    \/ st.board[index] # null
    \/ st.winnerInfo # NoWinner
    \/ st.isDraw
    \/ ~st.isPlayerTurn

handleCellClick(st, index) ==
    IF ClickIgnored(st, index) THEN st
    ELSE LET newBoard == [st.board EXCEPT ![index] = "X"]
         IN  checkGameStatus(
                 [st EXCEPT !.board = newBoard,
                            !.moveHistory = Append(@, index),
                            !.isPlayerTurn = FALSE],
                 newBoard, st.scores)

\* The difficulty button of the modal.
selectDifficulty(st, level) ==
    restartGame([st EXCEPT !.difficulty = level])

\* Mutant of EffectStartsAi: the recorded outcome is not looked at.
EffectStartsAi_IgnoresOutcome(old, new, boardSet) ==
    /\ \/ boardSet
       \/ old.isPlayerTurn # new.isPlayerTurn
       \/ old.winnerInfo # new.winnerInfo
       \/ old.isDraw # new.isDraw
    /\ ~new.isPlayerTurn

\* The condition of the effect that starts the AI turn (lines 156-161): it
\* runs after a render in which one of its dependencies changed; setBoard
\* always installs a new array.
EffectStartsAi(old, new, boardSet) ==
    /\ \/ boardSet
       \/ old.isPlayerTurn # new.isPlayerTurn
       \/ old.winnerInfo # new.winnerInfo
       \/ old.isDraw # new.isDraw
    /\ ~new.isPlayerTurn
    /\ new.winnerInfo = NoWinner
    /\ ~new.isDraw

\* aiMove up to its first await (lines 109-120): the state it leaves, and
\* the call it suspends (none when no cell is available).
aiMoveStartState(st) ==
    [st EXCEPT !.isAiThinking = (Len(availableCells(st.board)) # 0),
               !.aiCommentary = "Hmm, let me think..."]

NewCall(st) ==
    [pc |-> "timer", currentBoard |-> st.board,
     currentMoveHistory |-> st.moveHistory, difficulty |-> st.difficulty,
     storedScores |-> st.scores, game |-> st.gamesPlayed, move |-> undefined]

aiMoveStartCalls(st, cs) ==
    IF Len(availableCells(st.board)) = 0 THEN cs ELSE Append(cs, NewCall(st))

\* aiMove from line 137 on, for the call's snapshot: the move is applied to
\* the snapshot, the history and the outcome are updated, the turn returns.
aiMoveApply(st, call, move, commentary) ==
    IF move \in Cells /\ call.currentBoard[move] = null
    THEN LET newBoard == [call.currentBoard EXCEPT ![move] = "O"]
             s1 == [st EXCEPT !.aiCommentary = commentary,
                              !.board = newBoard,
                              !.moveHistory = Append(@, move)]
             s2 == checkGameStatus(s1, newBoard, call.storedScores)
         IN  [s2 EXCEPT !.isPlayerTurn = TRUE, !.isAiThinking = FALSE]
    ELSE [st EXCEPT !.isAiThinking = FALSE]

\* Whether line 137 finds the chosen cell empty (setBoard is then called).
MoveApplies(call, move) == move \in Cells /\ call.currentBoard[move] = null

\* getAICommentary: the text of the service with its quotes removed, or the
\* placeholder when the request throws.
getAICommentary(ok) == IF ok THEN "<commentary>" ELSE "Thinking..."

RemoveAt(cs, k) == SubSeq(cs, 1, k - 1) \o SubSeq(cs, k + 1, Len(cs))

\* Line 124: availableCells[Math.floor(Math.random() * availableCells.length)]
easyMove(currentBoard, rnd) ==
    availableCells(currentBoard)[
        RandomIndex(rnd, Len(availableCells(currentBoard))) + 1]

\* A render after a handler's batched updates, then the AI-turn effect.
Render(old, new, boardSet, cs) ==
    IF EffectStartsAi(old, new, boardSet)
    THEN /\ Commit(aiMoveStartState(new))
         /\ calls' = aiMoveStartCalls(new, cs)
    ELSE /\ Commit(new)
         /\ calls' = cs

\* The n lowest empty cells of b.
LowestEmpty(b, n) ==
    {i \in Cells : b[i] = null /\ Cardinality({j \in 0..i : b[j] = null}) <= n}

\* The cells a legal human click may go to.
ClickChoices(b) == LowestEmpty(b, MaxClickChoices)

\* The responses the service gives to a move request for board b.
ServiceChoices(b) ==
    {resp \in ServiceResponses :
        /\ resp.kind # "no_credentials"
        /\ ValidMove(b, resp) => (resp.move2 \div 2) \in LowestEmpty(b, MaxServiceChoices)}

\* Whether the human may reset the game now.
MayReset ==
    /\ gamesPlayed < MaxGames
    /\ calls = <<>> \/ Len(moveHistory) <= MaxStaleHistory

ZeroScores == [player |-> 0, ai |-> 0, draws |-> 0]
NoOut == [move |-> undefined, info |-> NoWinner, winnerInfo |-> NoWinner,
          isDraw |-> FALSE, examples |-> <<>>]

InitApp ==
    /\ board = EmptyBoard
    /\ isPlayerTurn = TRUE
    /\ winnerInfo = NoWinner
    /\ isDraw = FALSE
    /\ scores = ZeroScores
    /\ gamesPlayed = 0
    /\ aiCommentary = ""
    /\ isAiThinking = FALSE
    /\ moveHistory = <<>>
    /\ calls = <<>>

InitFun ==
    /\ fboard = EmptyBoard
    /\ fhistory = <<>>
    /\ fop = "none"
    /\ fresp = NoCredentials
    /\ fout = NoOut

\* The state after App is mounted: the difficulty is read from local storage
\* (any of the four), API_KEY is set or not.
Init ==
    /\ InitApp
    /\ difficulty \in Difficulty
    /\ apiKey \in BOOLEAN
    /\ InitFun

(***************************************************************************)
(* Actions of the orchestrator.                                            *)
(***************************************************************************)
\* The human clicks cell index.
Click(index) ==
    /\ \/ ClickIgnored(State, index)
       \/ /\ index \in ClickChoices(board)
          /\ \/ /\ Len(calls) < MaxInFlight
                /\ Cardinality({k \in 1..Len(calls) : calls[k].game = gamesPlayed})
                      < MaxOverlap
             \/ ~EffectStartsAi(State, handleCellClick(State, index), TRUE)
    /\ Render(State, handleCellClick(State, index),
              ~ClickIgnored(State, index), calls)
    /\ UNCHANGED <<apiKey, funVars>>

\* The human presses "Restart Game".
Restart ==
    /\ MayReset
    /\ Render(State, restartGame(State), TRUE, calls)
    /\ UNCHANGED <<apiKey, funVars>>

\* The human picks a level in the difficulty modal.
SetDifficulty(level) ==
    /\ MayReset
    /\ Render(State, selectDifficulty(State, level), TRUE, calls)
    /\ UNCHANGED <<apiKey, funVars>>

\* The index of the call whose 750 ms timer fires next: timers of one delay
\* fire in the order they were set.
NextTimer == Min({k \in 1..Len(calls) : calls[k].pc = "timer"})

\* The 750 ms timer of a call fires (line 120) and aiMove runs on to its
\* next await or to its end.
TimerFires(rnd) ==
    /\ \E k \in 1..Len(calls) : calls[k].pc = "timer"
    /\ LET k    == NextTimer
           call == calls[k]
       IN  CASE call.difficulty = "Easy" ->
                  Render(State,
                         aiMoveApply(State, call, easyMove(call.currentBoard, rnd), ""),
                         MoveApplies(call, easyMove(call.currentBoard, rnd)),
                         RemoveAt(calls, k))
             [] call.difficulty = "Medium" ->
                  Render(State,
                         aiMoveApply(State, call, getMediumAIMove(call.currentBoard, rnd), ""),
                         MoveApplies(call, getMediumAIMove(call.currentBoard, rnd)),
                         RemoveAt(calls, k))
             [] call.difficulty \in {"Hard", "Trained"} /\ apiKey ->
                  \* await ai.models.generateContent(...)
                  /\ calls' = [calls EXCEPT ![k].pc = "remote"]
                  /\ UNCHANGED <<board, isPlayerTurn, winnerInfo, isDraw, difficulty,
                                 scores, gamesPlayed, aiCommentary, isAiThinking,
                                 moveHistory>>
             [] call.difficulty \in {"Hard", "Trained"} /\ ~apiKey ->
                  \* getAIInstance throws in the selector and in getAICommentary:
                  \* both resolve without leaving the microtask queue.
                  LET move == IF call.difficulty = "Hard"
                              THEN getHardAIMove(call.currentBoard,
                                       call.currentMoveHistory, NoCredentials, rnd)
                              ELSE getTrainedAIMove(call.currentBoard,
                                       call.currentMoveHistory, NoCredentials, rnd)
                  IN  Render(State,
                             aiMoveApply(State, call, move, getAICommentary(FALSE)),
                             MoveApplies(call, move), RemoveAt(calls, k))
    /\ UNCHANGED <<apiKey, funVars>>

\* The service settles the move request of call k with resp; the selector
\* returns, and aiMove goes on to await the commentary (line 142).
ServiceAnswers(k, resp, rnd) ==
    /\ k \in 1..Len(calls)
    /\ calls[k].pc = "remote"
    /\ resp \in ServiceChoices(calls[k].currentBoard)
    \* Math.random() is drawn only on the fallback to getMediumAIMove.
    /\ (Throws(resp) \/ ~ValidMove(calls[k].currentBoard, resp) \/ rnd = 0)
    /\ LET call == calls[k]
           move == IF call.difficulty = "Hard"
                   THEN getHardAIMove(call.currentBoard, call.currentMoveHistory,
                                      resp, rnd)
                   ELSE getTrainedAIMove(call.currentBoard, call.currentMoveHistory,
                                         resp, rnd)
       IN  IF MoveApplies(call, move)
           THEN /\ calls' = [calls EXCEPT ![k].pc = "commentary", ![k].move = move]
                /\ UNCHANGED <<board, isPlayerTurn, winnerInfo, isDraw, difficulty,
                               scores, gamesPlayed, aiCommentary, isAiThinking,
                               moveHistory>>
           ELSE Render(State, aiMoveApply(State, call, move, ""), FALSE,
                       RemoveAt(calls, k))
    /\ UNCHANGED <<apiKey, funVars>>

\* The service settles the commentary request of call k (ok: with a text),
\* and aiMove runs to its end (lines 143-153).
CommentaryAnswers(k, ok) ==
    /\ k \in 1..Len(calls)
    /\ calls[k].pc = "commentary"
    /\ Render(State, aiMoveApply(State, calls[k], calls[k].move, getAICommentary(ok)),
              TRUE, RemoveAt(calls, k))
    /\ UNCHANGED <<apiKey, funVars>>

Next ==
    \/ \E index \in Cells : Click(index)
    \/ Restart
    \/ \E level \in Difficulty : SetDifficulty(level)
    \/ \E rnd \in 0..(RandSteps - 1) : TimerFires(rnd)
    \/ \E k \in 1..MaxInFlight, resp \in ServiceResponses, rnd \in 0..(RandSteps - 1) :
          ServiceAnswers(k, resp, rnd)
    \/ \E k \in 1..MaxInFlight, ok \in BOOLEAN : CommentaryAnswers(k, ok)

Spec == Init /\ [][Next]_vars

(***************************************************************************)
(* The evaluator and the selectors applied to an arbitrary board.          *)
(***************************************************************************)
InitBoards ==
    /\ InitApp
    /\ difficulty = "Medium"
    /\ apiKey = FALSE
    /\ fboard \in BoardState
    /\ fhistory = <<>>
    /\ fop = "none"
    /\ fresp = NoCredentials
    /\ fout = NoOut

Count(b, mark) == Cardinality({i \in Cells : b[i] = mark})

\* The boards aiMove hands to a selector: the human has moved last, and
\* aiMove returns before the switch when no cell is empty (lines 113-118).
InitAiTurnBoards ==
    /\ InitBoards
    /\ Count(fboard, "X") - Count(fboard, "O") \in 1..MaxLead
    /\ availableCells(fboard) # <<>>

\* checkWinner(fboard), and checkGameStatus(fboard) in a fresh game.
Evaluate ==
    /\ fop = "none"
    /\ fop' = "eval"
    /\ fout' = [NoOut EXCEPT
                   !.info       = checkWinner(fboard),
                   !.winnerInfo = checkGameStatus(State, fboard, scores).winnerInfo,
                   !.isDraw     = checkGameStatus(State, fboard, scores).isDraw]
    /\ UNCHANGED <<fboard, fhistory, fresp, appVars>>

Medium(rnd) ==
    /\ fop = "none"
    /\ fop' = "medium"
    /\ fout' = [NoOut EXCEPT !.move = getMediumAIMove(fboard, rnd)]
    /\ UNCHANGED <<fboard, fhistory, fresp, appVars>>

Hard(resp, rnd) ==
    /\ fop = "none"
    /\ (Throws(resp) \/ ~ValidMove(fboard, resp) \/ rnd = 0)
    /\ fop' = "hard"
    /\ fresp' = resp
    /\ fout' = [NoOut EXCEPT !.move = getHardAIMove(fboard, fhistory, resp, rnd)]
    /\ UNCHANGED <<fboard, fhistory, appVars>>

Trained(resp, rnd) ==
    /\ fop = "none"
    /\ (Throws(resp) \/ ~ValidMove(fboard, resp) \/ rnd = 0)
    /\ fop' = "trained"
    /\ fresp' = resp
    /\ fout' = [NoOut EXCEPT !.move = getTrainedAIMove(fboard, fhistory, resp, rnd)]
    /\ UNCHANGED <<fboard, fhistory, appVars>>

NextLocal ==
    \/ Evaluate
    \/ \E rnd \in 0..(RandSteps - 1) : Medium(rnd)

NextRemote ==
    \/ \E resp \in ServiceResponses, rnd \in 0..(RandSteps - 1) : Hard(resp, rnd)
    \/ \E resp \in ServiceResponses, rnd \in 0..(RandSteps - 1) : Trained(resp, rnd)

\* The evaluator and the heuristic selector on every board of {_, X, O}^9.
SpecLocal == InitBoards /\ [][NextLocal]_vars

\* The remote-assisted selectors on the boards of the AI's turn, for every
\* service response.
SpecRemote == InitAiTurnBoards /\ [][NextRemote]_vars

(***************************************************************************)
(* The retrieval of training examples applied to a move history.           *)
(***************************************************************************)
\* The sequences over Cells of length at most n.
RECURSIVE SeqsUpTo(_)
SeqsUpTo(n) ==
    IF n = 0 THEN {<<>>}
    ELSE SeqsUpTo(n - 1)
         \cup {Append(h, c) : h \in {g \in SeqsUpTo(n - 1) : Len(g) = n - 1}, c \in Cells}

\* The move histories the retriever is applied to: every short history, and
\* every prefix of every corpus entry followed by at most MaxExtraMoves
\* arbitrary moves.
Histories ==
    SeqsUpTo(MaxHistoryLen)
    \cup UNION {{SubSeq(winningGameSequences[k].moves, 1, n) \o t :
                    n \in 0..Len(winningGameSequences[k].moves),
                    t \in SeqsUpTo(MaxExtraMoves)} :
                 k \in 1..Len(winningGameSequences)}

InitHistories ==
    /\ InitApp
    /\ difficulty = "Trained"
    /\ apiKey = TRUE
    /\ fboard = EmptyBoard
    /\ fhistory \in Histories
    /\ fop = "none"
    /\ fresp = NoCredentials
    /\ fout = NoOut

\* relevantExamples of getTrainedAIMove(board, fhistory).
Retrieve ==
    /\ fop = "none"
    /\ fop' = "retrieve"
    /\ fout' = [NoOut EXCEPT !.examples = relevantExamples(fhistory)]
    /\ UNCHANGED <<fboard, fhistory, fresp, appVars>>

SpecRetriever == InitHistories /\ [][Retrieve]_vars

(***************************************************************************)
(* Properties.  The notions of the specification are restated here from    *)
(* its text (sections 3, 4.1, 4.2), independently of the operators above.  *)
(***************************************************************************)
\* Section 3: the 8 winning lines, in the order of section 4.1.
SpecLines ==
    << {0, 1, 2}, {3, 4, 5}, {6, 7, 8}, {0, 3, 6}, {1, 4, 7}, {2, 5, 8},
       {0, 4, 8}, {2, 4, 6} >>

BoardOf(cells) == [i \in Cells |-> cells[i + 1]]

Holds(b, L, M) == \A i \in L : b[i] = M

CompletedLines(b) ==
    {k \in 1..Len(SpecLines) : \E M \in Player : Holds(b, SpecLines[k], M)}

\* Section 4.1: the Game Outcome of a board.
Outcome(b) ==
    IF CompletedLines(b) # {}
    THEN LET L == SpecLines[Min(CompletedLines(b))]
         IN  [tag |-> "Win", mark |-> CHOOSE M \in Player : Holds(b, L, M), line |-> L]
    ELSE IF \A i \in Cells : b[i] # null
    THEN [tag |-> "Draw", mark |-> null, line |-> {}]
    ELSE [tag |-> "InProgress", mark |-> null, line |-> {}]

\* What the code's winner record says, as a Game Outcome.
AsOutcome(info, draw) ==
    IF info # NoWinner
    THEN [tag |-> "Win", mark |-> info.winner,
          line |-> {info.line[k] : k \in 1..Len(info.line)}]
    ELSE IF draw THEN [tag |-> "Draw", mark |-> null, line |-> {}]
    ELSE [tag |-> "InProgress", mark |-> null, line |-> {}]

\* Section 4.2, steps 1 and 2: the empty cells at which placing M makes the
\* Evaluator report a Win for M.
WinsAt(b, M) ==
    {i \in Cells :
        /\ b[i] = null
        /\ Outcome([b EXCEPT ![i] = M]).tag = "Win"
        /\ Outcome([b EXCEPT ![i] = M]).mark = M}

EmptyIn(b, S) == {i \in S : b[i] = null}
Randoms == 0..(RandSteps - 1)
MediumResults(b) == {getMediumAIMove(b, r) : r \in Randoms}

C1_Example == BoardOf(<<"X", "O", "X", "O", "X", "O", "_", "_", "X">>)

\* C1: for every board the evaluator (checkWinner, and checkGameStatus in a
\* fresh game) yields Win(M, line) for a completed line of mark M when the
\* board has one, full or not, otherwise Draw when the board is full,
\* otherwise InProgress; [X,O,X, O,X,O, _,_,X] is Win(X, [0,4,8]).
C1_EvaluatorOutcome ==
    fop = "eval" =>
        /\ AsOutcome(fout.winnerInfo, fout.isDraw) = Outcome(fboard)
        /\ AsOutcome(fout.info, FALSE).tag = "Win" <=> Outcome(fboard).tag = "Win"
        /\ Outcome(fboard).tag = "Win" => AsOutcome(fout.info, FALSE) = Outcome(fboard)
        /\ ~(fout.winnerInfo # NoWinner /\ fout.isDraw)
        /\ fboard = C1_Example =>
              /\ fout.winnerInfo = [winner |-> "X", line |-> <<0, 4, 8>>]
              /\ fout.info = [winner |-> "X", line |-> <<0, 4, 8>>]

C1_Witness ==
    /\ fop = "eval"
    /\ fboard = C1_Example
    /\ fout.winnerInfo.winner = "X"
    /\ ~fout.isDraw

\* C2: on every board with at least one empty cell, and for every outcome of
\* the random tie-breaks, getMediumAIMove returns the index of an empty cell.
C2_MediumReturnsEmptyCell ==
    (fop = "medium" /\ EmptyIn(fboard, Cells) # {}) =>
        /\ fout.move \in Cells
        /\ fboard[fout.move] = null

\* No win, no block, centre and corners taken: the second of two free edges.
C2_Witness ==
    /\ fop = "medium"
    /\ fboard = BoardOf(<<"X", "O", "X", "_", "X", "_", "O", "X", "O">>)
    /\ fout.move = 5

\* C6: if O has a cell that wins at once, getMediumAIMove returns the lowest
\* such cell, also when X has a cell that wins at once.
C6_TakesLowestWin ==
    (fop = "medium" /\ WinsAt(fboard, "O") # {}) =>
        fout.move = Min(WinsAt(fboard, "O"))

C6_Witness ==
    /\ fop = "medium"
    /\ fboard = BoardOf(<<"O", "O", "_", "X", "X", "_", "_", "_", "_">>)
    /\ WinsAt(fboard, "X") = {5}
    /\ fout.move = 2

\* C7: if O has no cell that wins at once and X has one, getMediumAIMove
\* returns the lowest cell at which X would win.
C7_BlocksLowestThreat ==
    (fop = "medium" /\ WinsAt(fboard, "O") = {} /\ WinsAt(fboard, "X") # {}) =>
        fout.move = Min(WinsAt(fboard, "X"))

C7_Witness ==
    /\ fop = "medium"
    /\ fboard = BoardOf(<<"X", "X", "_", "O", "_", "_", "_", "_", "_">>)
    /\ fout.move = 2

\* C8: with no winning cell for either mark, getMediumAIMove returns 4 when
\* the centre is empty (so 4 after the human's opening move 0); otherwise an
\* empty corner when there is one, each empty corner being a possible result;
\* otherwise an empty edge, each empty edge being a possible result.
C8_CentreCornersEdges ==
    (fop = "medium" /\ WinsAt(fboard, "O") = {} /\ WinsAt(fboard, "X") = {}) =>
        LET corners == EmptyIn(fboard, {0, 2, 6, 8})
            edges   == EmptyIn(fboard, {1, 3, 5, 7})
        IN  /\ fboard[4] = null => fout.move = 4
            /\ (fboard[4] # null /\ corners # {}) =>
                  /\ fout.move \in corners
                  /\ MediumResults(fboard) = corners
            /\ (fboard[4] # null /\ corners = {} /\ edges # {}) =>
                  /\ fout.move \in edges
                  /\ MediumResults(fboard) = edges

\* The human holds the centre; the random draw picks the last free corner.
C8_Witness ==
    /\ fop = "medium"
    /\ fboard = BoardOf(<<"_", "_", "_", "_", "X", "_", "_", "_", "_">>)
    /\ fout.move = 8

\* C3: on every board they are given, getHardAIMove and getTrainedAIMove
\* raise nothing and return the index of an empty cell whatever the service
\* does: a valid move, a number out of range, a non-integer, an occupied
\* cell, no move field, a move that is no number, malformed JSON, a
\* transport error, no credentials.
C3_RemoteReturnsEmptyCell ==
    fop \in {"hard", "trained"} =>
        /\ fout.move \in Cells
        /\ fboard[fout.move] = null

C3_Witness ==
    /\ fop = "hard"
    /\ fresp.kind = "malformed_json"
    /\ fboard = BoardOf(<<"X", "O", "X", "_", "X", "_", "O", "X", "O">>)
    /\ fout.move = 5

\* The service names a number out of 0..8, or a cell that is taken.
Rejected(b, resp) ==
    /\ resp.kind = "number"
    /\ resp.move2 % 2 = 0
    /\ \/ (resp.move2 \div 2) \notin Cells
       \/ b[resp.move2 \div 2] # null

\* C4: when the service names a number out of range or an occupied cell, the
\* Hard and the Trained selector return what getMediumAIMove returns on the
\* same board: the same set of possible results.
C4_RejectedMoveFallsBack ==
    (fop \in {"hard", "trained"} /\ Rejected(fboard, fresp)) =>
        LET medium == MediumResults(fboard)
        IN  /\ fout.move \in medium
            /\ fop = "hard" =>
                  {getHardAIMove(fboard, <<>>, fresp, r) : r \in Randoms} = medium
            /\ fop = "trained" =>
                  {getTrainedAIMove(fboard, <<>>, fresp, r) : r \in Randoms} = medium

\* The service names cell 4, which X holds; the fallback picks a corner.
C4_Witness ==
    /\ fop = "trained"
    /\ fresp = [kind |-> "number", move2 |-> 8]
    /\ fboard = BoardOf(<<"_", "_", "_", "_", "X", "_", "_", "_", "_">>)
    /\ fout.move = 6

(***************************************************************************)
(* The orchestrator when the service may stay silent: the 750 ms timers    *)
(* fire, nothing makes the service settle a request.                       *)
(***************************************************************************)
SpecTimeout ==
    Init /\ [][Next]_vars /\ WF_vars(\E rnd \in Randoms : TimerFires(rnd))

\* Some aiMove call awaits the service's answer to its move request.
AwaitingMove == \E k \in 1..Len(calls) : calls[k].pc = "remote"

\* C5: a move request that the service neither answers nor fails still ends:
\* the selector returns (the heuristic move), so the AI turn on Hard or
\* Trained ends and the game does not stall.
C5_SilentServiceStillEnds == AwaitingMove ~> ~AwaitingMove

\* The game is Finished: a win or a draw is recorded.
Finished == winnerInfo # NoWinner \/ isDraw

\* The number of calls whose timer has not fired: a selector is invoked when
\* a timer fires.
TimerCount == Cardinality({k \in 1..Len(calls) : calls[k].pc = "timer"})

\* C9: from a Finished state, every step other than a reset leaves the
\* board, the move history, the recorded outcome and the scores as they are
\* and invokes no selector.
C9_FinishedIsTerminal ==
    [][(Finished /\ gamesPlayed' = gamesPlayed) =>
          /\ board' = board
          /\ moveHistory' = moveHistory
          /\ winnerInfo' = winnerInfo
          /\ isDraw' = isDraw
          /\ scores' = scores
          /\ TimerCount' >= TimerCount]_vars

\* C10: at most one aiMove call has started and not yet finished.
C10_OneAiMoveInFlight == Len(calls) <= 1

(***************************************************************************)
(* The recorded outcome, clicks that are ignored, commentary.              *)
(***************************************************************************)
\* C11: in every reachable state the recorded outcome is the Evaluator's
\* result for the current board: winnerInfo and isDraw are never both set,
\* winnerInfo is set exactly when the board has a completed line (of that
\* mark), isDraw exactly when the board is full with no completed line.
C11_OutcomeMatchesBoard ==
    /\ ~(winnerInfo # NoWinner /\ isDraw)
    /\ AsOutcome(winnerInfo, isDraw) = Outcome(board)

\* The phases of section 4.6, read off the orchestrator's flags.
HumanTurn == isPlayerTurn /\ ~Finished
AiThinking == (~isPlayerTurn \/ isAiThinking) /\ ~Finished

\* The clicks the specification calls illegal.
IllegalClick(index) ==
    board[index] # null \/ AiThinking \/ Finished

\* C12: a click on an occupied cell, a click during AiThinking and a click on
\* a Finished game change nothing (board, history, turn, outcome, scores)
\* and start no selector.
C12_IllegalClickIsNoOp ==
    \A index \in Cells :
        IllegalClick(index) =>
            /\ handleCellClick(State, index) = State
            /\ ~EffectStartsAi(State, handleCellClick(State, index),
                               ~ClickIgnored(State, index))

\* A click on an empty cell while the AI's move is being computed.
C12_Witness ==
    /\ AiThinking
    /\ calls # <<>>
    /\ board = [EmptyBoard EXCEPT ![0] = "X"]
    /\ handleCellClick(State, 1) = State

\* The selector of call k has returned its move and the commentary request
\* is not settled.
CommentaryPending(k) == calls[k].pc = "commentary"

\* C13: on Hard and Trained the move the selector returned is on the board
\* and the turn has passed on without waiting for the commentary: no call
\* sits with its move chosen and not applied while the commentary request is
\* pending.
C13_MoveNotHeldByCommentary ==
    \A k \in 1..Len(calls) :
        (CommentaryPending(k) /\ calls[k].game = gamesPlayed) =>
            /\ board[calls[k].move] = "O"
            /\ isPlayerTurn \/ Finished

(***************************************************************************)
(* The Training-Example Retriever.                                         *)
(***************************************************************************)
\* The positions in the corpus of the entries whose moves start with h.
Matching(h) ==
    {k \in 1..Len(winningGameSequences) :
        /\ Len(winningGameSequences[k].moves) >= Len(h)
        /\ SubSeq(winningGameSequences[k].moves, 1, Len(h)) = h}

\* The j-th smallest element of a set of numbers.
Nth(S, j) == CHOOSE k \in S : Cardinality({x \in S : x < k}) = j - 1

\* C15: the retriever returns, in corpus order, the first 3 (or fewer)
\* entries whose moves agree with the history at every position of the
\* history: an entry shorter than the history never matches, the empty
\* history matches every entry, no match gives an empty result, and
\* history [4,0] gives only entries that start 4,0.
C15_FirstThreeMatches ==
    fop = "retrieve" =>
        LET m == Matching(fhistory)
            r == fout.examples
        IN  /\ Len(r) = IF Cardinality(m) < 3 THEN Cardinality(m) ELSE 3
            /\ \A j \in 1..Len(r) : r[j] = winningGameSequences[Nth(m, j)]
            /\ \A j \in 1..Len(r) : Len(r[j].moves) >= Len(fhistory)
            /\ fhistory = <<>> => r = SubSeq(winningGameSequences, 1, 3)
            /\ fhistory = <<4, 0>> =>
                  r = << [winner |-> "X", moves |-> <<4, 0, 1, 2, 7>>],
                         [winner |-> "O", moves |-> <<4, 0, 6, 3, 2>>] >>

C15_Witness ==
    /\ fop = "retrieve"
    /\ fhistory = <<4, 0>>
    /\ Len(fout.examples) = 2
    /\ fout.examples[1].winner = "X"

(***************************************************************************)
(* Resets, difficulty, selector invocations, alternation, stale calls.     *)
(***************************************************************************)
\* C16: a reset, in whatever state it is issued, leaves the game in
\* HumanTurn with all nine cells empty, an empty move history, no recorded
\* outcome and the AI-thinking flag cleared, and leaves the scores alone.
C16_ResetClearsGame ==
    [][gamesPlayed' # gamesPlayed =>
          /\ board' = EmptyBoard
          /\ moveHistory' = <<>>
          /\ isPlayerTurn'
          /\ winnerInfo' = NoWinner
          /\ ~isDraw'
          /\ ~isAiThinking'
          /\ scores' = scores
          /\ calls' = calls]_vars

\* The state right after a reset issued during AiThinking.
C16_Witness ==
    /\ gamesPlayed = 1
    /\ board = EmptyBoard
    /\ moveHistory = <<>>
    /\ HumanTurn
    /\ ~isAiThinking
    /\ \E k \in 1..Len(calls) : calls[k].game = 0

\* The step ends call k of calls (aiMove returns).
Ends(k) == k \in 1..Len(calls) /\ calls' = RemoveAt(calls, k)

\* C17: the difficulty never changes within a game: a step that changes it
\* resets the game, and an AI move that is applied to the board was chosen
\* by the selector of the difficulty in effect when it is applied.
C17_DifficultyFixedInGame ==
    [][/\ difficulty' # difficulty =>
             /\ gamesPlayed' # gamesPlayed
             /\ board' = EmptyBoard
             /\ moveHistory' = <<>>
             /\ isPlayerTurn'
       /\ \A k \in 1..Len(calls) :
             (Ends(k) /\ board' # board) => calls[k].difficulty = difficulty]_vars

\* C18: a selector is invoked only on a board with an empty cell and no
\* completed line; after the human fills the ninth cell none is invoked.
\* (A suspended call is a selector invocation on its currentBoard.)
C18_SelectorsGetOpenBoards ==
    /\ \A k \in 1..Len(calls) :
          /\ EmptyIn(calls[k].currentBoard, Cells) # {}
          /\ CompletedLines(calls[k].currentBoard) = {}
    /\ EmptyIn(board, Cells) = {} =>
          \A k \in 1..Len(calls) : calls[k].currentBoard # board

\* An AI turn on a board with two cells left.
C18_Witness ==
    \E k \in 1..Len(calls) :
        /\ calls[k].pc = "timer"
        /\ calls[k].currentBoard = board
        /\ Cardinality(EmptyIn(board, Cells)) = 2

\* The number of X marks minus the number of O marks.
Lead(b) == Count(b, "X") - Count(b, "O")

\* C19: turns alternate, the human first: X is ahead of O by 0 or 1 marks,
\* by 0 whenever it is the human's turn in an unfinished game, and an AI
\* turn puts exactly one O on a cell that was empty.
C19_TurnsAlternate ==
    [][/\ Lead(board') \in {0, 1}
       /\ HumanTurn' => Lead(board') = 0
       /\ \A k \in 1..Len(calls) :
             Ends(k) => \E i \in Cells :
                           /\ board[i] = null
                           /\ board' = [board EXCEPT ![i] = "O"]]_vars

\* C20: an AI move is applied only to the game it was computed for: the
\* completion of a call that was suspended across a reset or a difficulty
\* change leaves the board, the move history, the outcome, the scores and
\* the turn alone; between resets no marked cell is emptied or re-marked.
C20_StaleCompletionIsInert ==
    [][/\ \A k \in 1..Len(calls) :
             (Ends(k) /\ calls[k].game # gamesPlayed) =>
                 /\ board' = board
                 /\ moveHistory' = moveHistory
                 /\ winnerInfo' = winnerInfo
                 /\ isDraw' = isDraw
                 /\ scores' = scores
                 /\ isPlayerTurn' = isPlayerTurn
       /\ gamesPlayed' = gamesPlayed =>
             \A i \in Cells : board[i] # null => board'[i] = board[i]]_vars

(***************************************************************************)
(* The score counters.                                                     *)
(***************************************************************************)
\* The counter an outcome is scored on.
CounterOf(info) ==
    IF info.winner = "X" THEN "player"
    ELSE IF info.winner = "O" THEN "ai"
    ELSE "draws"

\* C14: the score counters change only when an outcome is detected, by
\* increments that are never lost: a step that takes a game to Finished adds
\* exactly 1 to the counter of its outcome (player, ai or draws) and leaves
\* the other two alone, and no other step changes a counter, so that no game
\* is scored twice and no counter decreases.
C14_ScoresAppendOnly ==
    [][IF ~Finished /\ Finished'
       THEN scores' = [scores EXCEPT ![CounterOf(winnerInfo')] = @ + 1]
       ELSE scores' = scores]_vars

(***************************************************************************)
(* The move history and the board.                                         *)
(***************************************************************************)
\* C21: in every reachable state the move history is consistent with the
\* board: no index occurs twice in it, its length is the number of marked
\* cells, the cells at its positions 0, 2, 4, ... hold X and those at its
\* positions 1, 3, 5, ... hold O, and every marked cell occurs in it.
C21_HistoryMatchesBoard ==
    /\ \A i, j \in 1..Len(moveHistory) :
          i # j => moveHistory[i] # moveHistory[j]
    /\ Len(moveHistory) = Cardinality({c \in Cells : board[c] # null})
    /\ \A i \in 1..Len(moveHistory) :
          board[moveHistory[i]] = IF i % 2 = 1 THEN "X" ELSE "O"
    /\ \A c \in Cells :
          board[c] # null => \E i \in 1..Len(moveHistory) : moveHistory[i] = c

(***************************************************************************)
(* The training corpus as recorded games.                                  *)
(***************************************************************************)
\* The mark of the i-th move of a game: X moves first, the marks alternate.
MarkOf(i) == IF i % 2 = 1 THEN "X" ELSE "O"

\* The board after the first n moves of a game are played on an empty board.
ReplayBoard(moves, n) ==
    [c \in Cells |->
        IF \E i \in 1..n : moves[i] = c
        THEN MarkOf(CHOOSE i \in 1..n :
                       moves[i] = c /\ \A j \in 1..n : moves[j] = c => j <= i)
        ELSE null]

\* Every move goes to a cell of the board that no earlier move took.
LegalMoves(moves) ==
    \A i \in 1..Len(moves) :
        /\ moves[i] \in Cells
        /\ \A j \in 1..(i - 1) : moves[j] # moves[i]

\* The entry is one complete recorded game won by its recorded winner.
CompleteGame(entry) ==
    /\ LegalMoves(entry.moves)
    /\ \A n \in 0..(Len(entry.moves) - 1) :
          CompletedLines(ReplayBoard(entry.moves, n)) = {}
    /\ Outcome(ReplayBoard(entry.moves, Len(entry.moves))).tag = "Win"
    /\ Outcome(ReplayBoard(entry.moves, Len(entry.moves))).mark = entry.winner

\* C22: every corpus entry (here: every entry the retriever hands to the
\* prompt as "a winning sequence ... for" its winner) is one complete
\* recorded game: replayed on an empty board, X first and marks alternating,
\* its moves never take an occupied or out-of-range cell, no line is
\* completed before its last move, it ends in a Win, and the mark that wins
\* is the recorded winner.
C22_CorpusEntriesAreGames ==
    fop = "retrieve" =>
        \A j \in 1..Len(fout.examples) : CompleteGame(fout.examples[j])

=============================================================================
